---- MODULE Spec2Model ----
(***************************************************************************)
(* Bulk dispatch of a WhatsApp template message (src/app.py, src/api.py):  *)
(* the thread pool of main(), the rate-limiter gate of rate_limited_send,  *)
(* the retry loop of send_message_task, send_whatsapp_message, and the     *)
(* as_completed aggregation loop; the page in front of them                *)
(* (get_header_input, get_phone_input, prepare_media_component, the send   *)
(* button) and the extraction of the recipients from an uploaded file      *)
(* (excel_to_phone_list).                                                  *)
(*                                                                         *)
(* Time is discrete and counted in units of 0.5 s, the base of the         *)
(* backoff: the limiter's 1.0 s window is 2 units, the backoff sleeps are  *)
(* 1 and 2 units.  A sleep lasts at least its duration (a sleeper may be   *)
(* woken late, never early).                                               *)
(***************************************************************************)
EXTENDS Integers, Sequences, FiniteSets, TLC

\* ---- bounds of the model -------------------------------------------------
\* recipients of the largest flattened batch
NumTasks == 3
\* max_workers of the pool (80 in the source), scaled down
MaxWorkers == 2
\* permits per limiter window (80 in the source), scaled down
RateN == 2
\* runs of up to DetailTasks recipients draw every send from all client
\* outcomes; larger runs from "ok" and one kind of error
DetailTasks == 1
\* characters of the longest text cell of an uploaded file
MaxLen == 4
\* magnitude of the largest number cell
MaxNum == 12
\* rows and columns of the largest sheet
MaxRows == 3
MaxCols == 2
\* calls of _get_client made by one worker
MaxCalls == 2

\* ---- program constants ---------------------------------------------------
\* the limiter window: elapsed < 1.0, in units of 0.5 s
Window == 2
\* the backoff base: (2**attempt) * 0.5, in units of 0.5 s
BackoffBase == 1
\* decimal digits of the integer part of the largest double
DoubleMaxDigits == 309
\* token[:10] in the key of the client cache
KeyLen == 10

\* max_retries=2 (as a mutant: three retries)
MaxRetriesThree == 2 + 1
MaxRetries == 2

Tasks == 1..NumTasks

VARIABLES
    transport,              \* the outcomes the client produces in this run
    texts,                  \* per error outcome: the message its exception carries
    metered,                \* what is recorded of the run besides the program's state:
                            \* "windows" (rolling-window meters), "clock", "order"
    total_tasks,            \* sum of the lengths of the phone lists
    submitted,              \* futures created so far by the submit loop
    mainpc,                 \* where the script is: "form", "submit", "collect", "final", ...
    pc,                     \* per task: where its worker is
    attempt,                \* per task: loop variable of send_message_task
    wake,                   \* per task: ticks left of the current time.sleep
    hist,                   \* per task: what the client did on each send call
    gates,                  \* per task: acquisitions of the rate-limiter gate
    sleeps,                 \* per task: backoff sleeps made, in ticks
    result,                 \* per task: the dict the future holds
    count,                  \* rate_limiter["count"]
    age,                    \* time.time() - rate_limiter["last_batch_time"], capped at Window
    lockHolder,             \* the task inside `with rate_lock`, or 0
    clock,                  \* ticks since rate_limiter was created (runs metered with "clock")
    recorded,               \* per task: times as_completed yielded its future
    total_messages_sent,
    total_messages_failed,
    failed_numbers,
    completed,              \* the progress counter shown
    early,                  \* as_completed: the futures already finished when it started
    finished_futures,       \* as_completed: the waiter's list of futures finished since
    doneOrder,              \* tasks in the order their outcomes completed, 0 where
                            \* as_completed started (runs metered with "order")
    permWin,                \* permits granted, by age in ticks (ages 0..Window-1)
    sendWin,                \* send calls made, by age in ticks (ages 0..Window-1)
    atCancel,               \* per task: send calls made when the script was stopped
    form,                   \* what the page holds when the send button is pressed
    components,             \* the params list of the run (empty: None)
    file,                   \* the uploaded recipients file: extension and DataFrame
    phone_numbers_dict,     \* group name -> list of phone numbers
    clients,                \* _clients of api.py: key -> client instance
    worker,                 \* per worker: where its call of _get_client is, and its locals
    calls,                  \* per worker: calls of _get_client returned
    instances,              \* every client instance constructed
    returned                \* every (phone_id, token, client) a call has returned

vars == <<transport, texts, metered, total_tasks, submitted, mainpc, pc, attempt, wake,
          hist, gates, sleeps, result, count, age, lockHolder, clock, recorded,
          total_messages_sent, total_messages_failed, failed_numbers, completed, early, finished_futures, doneOrder,
          permWin, sendWin, atCancel, form, components, file,
          phone_numbers_dict, clients, worker, calls, instances, returned>>

clientVars == <<clients, worker, calls, instances, returned>>
setup == <<transport, texts, metered, total_tasks, atCancel, form, components, file,
           phone_numbers_dict, clientVars>>
poolVars == <<pc, attempt, wake, hist, gates, sleeps, result>>
limiterVars == <<count, age, lockHolder, clock>>
aggVars == <<recorded, total_messages_sent, total_messages_failed, failed_numbers,
             completed>>
waiterVars == <<early, finished_futures, doneOrder>>

\* ---- helpers -------------------------------------------------------------
Min(a, b) == IF a < b THEN a ELSE b
Max(a, b) == IF a > b THEN a ELSE b

RECURSIVE Pow2(_)
Pow2(n) == IF n = 0 THEN 1 ELSE 2 * Pow2(n - 1)

Ages == 0..(Window - 1)
EmptyWin == [a \in Ages |-> 0]

RECURSIVE SumUpTo(_, _)
SumUpTo(f, a) == IF a < 0 THEN 0 ELSE f[a] + SumUpTo(f, a - 1)
\* events whose age is below Window: the rolling window ending now
InWindow(f) == SumUpTo(f, Window - 1)

Stamp(f) == IF "windows" \in metered THEN [f EXCEPT ![0] = @ + 1] ELSE f
Shift(f) == [a \in Ages |-> IF a = 0 THEN 0 ELSE f[a - 1]]

\* ---- the send operation (src/api.py) --------------------------------------
\* what client.send_template can do: return a sent message, or raise
\* a connection error, a rate-limit error, a server error or a permanent
\* rejection (invalid recipient, template mismatch)
ClientOutcomes == {"ok", "transport", "ratelimit", "server", "permanent"}

RetryableKinds == {"transport", "ratelimit", "server"}

ErrorOutcomes == ClientOutcomes \ {"ok"}
\* every kind of error with a message of its own
OwnTexts == [k \in ErrorOutcomes |-> k]

\* str(e): the message of the exception, without its class
str(e) == e.message

\* send_whatsapp_message: the JSON it returns has the keys messaging_product,
\* contacts and messages; whatever the client raises is logged and re-raised
send_whatsapp_message(k) ==
    IF k = "ok"
    THEN [raised |-> FALSE, hasError |-> FALSE, code |-> 0,
          exc |-> [kind |-> "none", message |-> "none"]]
    ELSE [raised |-> TRUE, hasError |-> FALSE, code |-> 0,
          exc |-> [kind |-> k, message |-> texts[k]]]

\* ---- send_message_task (src/app.py) --------------------------------------
NoResult == [success |-> FALSE, phone |-> 0, error |-> "none"]

\* error_code in [4, 80007] or error_code >= 500
RetryableCode(code) == code \in {4, 80007} \/ code >= 500

\* wait_time = (2**attempt) * 0.5
\* (as a mutant: the delay does not double)
WaitTimeFlat(a) == BackoffBase
WaitTime(a) == Pow2(a) * BackoffBase

\* (as a mutant: a successful send does not leave the loop while attempts remain)
HandleResponseNoStop(t, a, resp) ==
    IF ~resp.raised /\ ~resp.hasError /\ a >= MaxRetries
    THEN [do |-> "return", wait |-> 0,
          res |-> [success |-> TRUE, phone |-> t, error |-> "none"]]
    ELSE IF a < MaxRetries
         THEN [do |-> "retry", wait |-> WaitTime(a), res |-> NoResult]
         ELSE [do |-> "return", wait |-> 0,
               res |-> [success |-> FALSE, phone |-> t, error |-> str(resp.exc)]]

\* (as a mutant: after the last attempt a generic message is returned)
HandleResponseGeneric(t, a, resp) ==
    IF ~resp.raised
    THEN [do |-> "return", wait |-> 0,
          res |-> [success |-> TRUE, phone |-> t, error |-> "none"]]
    ELSE IF a < MaxRetries
         THEN [do |-> "retry", wait |-> WaitTime(a), res |-> NoResult]
         ELSE [do |-> "return", wait |-> 0,
               res |-> [success |-> FALSE, phone |-> t, error |-> "maxretries"]]

\* one iteration of the loop body on the response of the send call:
\* "retry" (sleep, then continue) or "return" with the result dict
HandleResponse(t, a, resp) ==
    IF ~resp.raised
    THEN IF resp.hasError
         THEN IF a < MaxRetries /\ RetryableCode(resp.code)
              THEN [do |-> "retry", wait |-> WaitTime(a), res |-> NoResult]
              ELSE [do |-> "return", wait |-> 0,
                    res |-> [success |-> FALSE, phone |-> t, error |-> "api"]]
         ELSE [do |-> "return", wait |-> 0,
               res |-> [success |-> TRUE, phone |-> t, error |-> "none"]]
    ELSE IF a < MaxRetries
         THEN [do |-> "retry", wait |-> WaitTime(a), res |-> NoResult]
         ELSE [do |-> "return", wait |-> 0,
               res |-> [success |-> FALSE, phone |-> t, error |-> str(resp.exc)]]

\* ---- excel_to_phone_list: text -------------------------------------------
\* a str is a sequence of one-character strings
UpperLetters == <<"A", "B", "C", "D", "E", "F", "G", "H", "I", "J", "K", "L", "M",
                  "N", "O", "P", "Q", "R", "S", "T", "U", "V", "W", "X", "Y", "Z">>
LowerLetters == <<"a", "b", "c", "d", "e", "f", "g", "h", "i", "j", "k", "l", "m",
                  "n", "o", "p", "q", "r", "s", "t", "u", "v", "w", "x", "y", "z">>
DigitChars == <<"0", "1", "2", "3", "4", "5", "6", "7", "8", "9">>

IsDigit(c) == \E i \in 1..10 : DigitChars[i] = c
DigitValue(c) == (CHOOSE i \in 1..10 : DigitChars[i] = c) - 1

\* str.upper() and str.lower(), one character
Upper(c) ==
    IF \E i \in 1..26 : LowerLetters[i] = c
    THEN UpperLetters[CHOOSE i \in 1..26 : LowerLetters[i] = c] ELSE c
Lower(c) ==
    IF \E i \in 1..26 : UpperLetters[i] = c
    THEN LowerLetters[CHOOSE i \in 1..26 : UpperLetters[i] = c] ELSE c

AllDigits(s) == \A i \in 1..Len(s) : IsDigit(s[i])

\* str.strip(): whitespace off both ends
RECURSIVE LStrip(_)
LStrip(s) == IF s # <<>> /\ Head(s) = " " THEN LStrip(Tail(s)) ELSE s
RECURSIVE RStrip(_)
RStrip(s) ==
    IF s # <<>> /\ s[Len(s)] = " " THEN RStrip(SubSeq(s, 1, Len(s) - 1)) ELSE s
Strip(s) == RStrip(LStrip(s))

\* str.lstrip("+"): every leading "+" is removed
RECURSIVE LStripPlus(_)
LStripPlus(s) == IF s # <<>> /\ Head(s) = "+" THEN LStripPlus(Tail(s)) ELSE s

\* str(n) of an int
RECURSIVE Dec(_)
Dec(n) == IF n < 10 THEN <<DigitChars[n + 1]>>
          ELSE Append(Dec(n \div 10), DigitChars[(n % 10) + 1])
StrInt(n) == IF n < 0 THEN <<"-">> \o Dec(0 - n) ELSE Dec(n)

\* int(s) of a string of digits
RECURSIVE ToNat(_)
ToNat(s) == IF s = <<>> THEN 0
            ELSE 10 * ToNat(SubSeq(s, 1, Len(s) - 1)) + DigitValue(s[Len(s)])

RECURSIVE Zeros(_)
Zeros(n) == IF n <= 0 THEN <<>> ELSE <<"0">> \o Zeros(n - 1)
RECURSIVE DropZeros(_)
DropZeros(s) == IF s # <<>> /\ Head(s) = "0" THEN DropZeros(Tail(s)) ELSE s

IsSign(c) == c = "+" \/ c = "-"
Unsigned(s) == IF s # <<>> /\ IsSign(Head(s)) THEN Tail(s) ELSE s

\* float(s) of a string that holds an "E" or "e": [sign] mantissa e [sign] digits,
\* the mantissa being digits with at most one point.  The value is kept as its
\* decimal digits: neg, the digits of the mantissa, the number of them behind
\* the point, and the exponent.
NoFloat == [ok |-> FALSE, neg |-> FALSE, digits |-> <<>>, frac |-> 0, exp |-> 0]

\* the position of the first "e" or "E"
ExpPos(body) ==
    CHOOSE i \in 1..Len(body) :
        /\ Upper(body[i]) = "E"
        /\ \A j \in 1..(i - 1) : Upper(body[j]) # "E"

\* the position of the first point, or just behind the mantissa
PointPos(mant) ==
    IF \E i \in 1..Len(mant) : mant[i] = "."
    THEN CHOOSE i \in 1..Len(mant) :
            mant[i] = "." /\ \A j \in 1..(i - 1) : mant[j] # "."
    ELSE Len(mant) + 1

FloatOf(neg, ipart, fpart, ex, exd) ==
    IF /\ AllDigits(ipart) /\ AllDigits(fpart)
       /\ Len(ipart) + Len(fpart) >= 1
       /\ exd # <<>> /\ AllDigits(exd)
    THEN [ok |-> TRUE, neg |-> neg, digits |-> ipart \o fpart, frac |-> Len(fpart),
          exp |-> IF ex[1] = "-" THEN 0 - ToNat(exd) ELSE ToNat(exd)]
    ELSE NoFloat

SplitMantissa(neg, mant, p, ex) ==
    FloatOf(neg, SubSeq(mant, 1, p - 1), SubSeq(mant, p + 1, Len(mant)), ex,
            Unsigned(ex))

SplitExponent(neg, body, e) ==
    SplitMantissa(neg, SubSeq(body, 1, e - 1), PointPos(SubSeq(body, 1, e - 1)),
                  SubSeq(body, e + 1, Len(body)))

ParseFloat(s) == SplitExponent(s[1] = "-", Unsigned(s), ExpPos(Unsigned(s)))

\* the digits of int(x), x a parsed float: truncation toward zero
IntDigits(x) ==
    DropZeros(IF x.exp - x.frac >= 0 THEN x.digits \o Zeros(x.exp - x.frac)
              ELSE SubSeq(x.digits, 1, Len(x.digits) + x.exp - x.frac))

\* str(int(x)); int() raises OverflowError on an infinity, which float()
\* returns for a value beyond the largest double
StrIntOf(x, d) ==
    IF ~x.ok THEN [raised |-> TRUE, str |-> <<>>]
    ELSE IF Len(d) > DoubleMaxDigits THEN [raised |-> TRUE, str |-> <<>>]
    ELSE IF d = <<>> THEN [raised |-> FALSE, str |-> <<"0">>]
    ELSE [raised |-> FALSE, str |-> IF x.neg THEN <<"-">> \o d ELSE d]

FloatDigits(x) == StrIntOf(x, IntDigits(x))

\* str(int(float(s)))
StrIntFloat(s) == FloatDigits(ParseFloat(s))

\* ---- excel_to_phone_list: cells ------------------------------------------
\* a cell of the DataFrame: missing (None, NaN), an int, a float (twice/2, or
\* an infinity), or a str
Missing == [kind |-> "missing", twice |-> 0, s |-> <<>>]
IntCell(n) == [kind |-> "int", twice |-> 2 * n, s |-> <<>>]
FloatCell(k) == [kind |-> "float", twice |-> k, s |-> <<>>]
Infinity == [kind |-> "inf", twice |-> 0, s |-> <<>>]
Text(s) == [kind |-> "text", twice |-> 0, s |-> s]

\* int(value) of a number: truncation toward zero
Trunc(k) == IF k >= 0 THEN k \div 2 ELSE 0 - ((0 - k) \div 2)

\* str(value)
StrCell(v) ==
    CASE v.kind = "text" -> v.s
      [] v.kind = "int" -> StrInt(Trunc(v.twice))
      [] v.kind = "float" ->
            (IF v.twice < 0 THEN <<"-">> ELSE <<>>)
            \o Dec(Trunc(IF v.twice < 0 THEN 0 - v.twice ELSE v.twice))
            \o (IF v.twice % 2 = 0 THEN <<".", "0">> ELSE <<".", "5">>)
      [] v.kind = "inf" -> <<"i", "n", "f">>
      [] OTHER -> <<"n", "a", "n">>

\* bool(value)
Truthy(v) ==
    CASE v.kind = "text" -> v.s # <<>>
      [] v.kind \in {"int", "float"} -> v.twice # 0
      [] OTHER -> TRUE

\* "E" in value_str.upper()
HasE(s) == \E i \in 1..Len(s) : Upper(s[i]) = "E"

\* the result for a str in scientific notation: the number, or on ValueError
\* and OverflowError the regular processing
FromFloat(value_str, f) == IF f.raised THEN LStripPlus(value_str) ELSE f.str

ConvertText(value_str) ==
    IF value_str = <<>> THEN <<>>
    ELSE IF HasE(value_str) THEN FromFloat(value_str, StrIntFloat(value_str))
    ELSE LStripPlus(value_str)

convert_to_phone(value) ==
    CASE value.kind = "missing" -> <<>>
      [] value.kind \in {"int", "float"} -> StrInt(Trunc(value.twice))
      [] value.kind = "inf" -> <<>>
      [] OTHER -> ConvertText(Strip(value.s))

\* valid_pattern.match(phone_str), valid_pattern = ^\d+$
\* (as a mutant: the pattern without its anchors)
valid_pattern_unanchored(s) == \E i \in 1..Len(s) : IsDigit(s[i])
valid_pattern(s) == s # <<>> /\ AllDigits(s)

\* list(dict.fromkeys(numbers)): the first occurrence of each, in order
\* (as a mutant: the list as it is)
fromkeys_kept(numbers) == numbers
AddKey(keys, k) ==
    IF \E i \in 1..Len(keys) : keys[i] = k THEN keys ELSE Append(keys, k)
RECURSIVE fromkeys(_)
fromkeys(numbers) ==
    IF numbers = <<>> THEN <<>>
    ELSE AddKey(fromkeys(SubSeq(numbers, 1, Len(numbers) - 1)), numbers[Len(numbers)])

\* mobile_pattern.search(str(column)), case-insensitive
MobileWords == {<<"m", "o", "b", "i", "l", "e">>, <<"p", "h", "o", "n", "e">>,
                <<"c", "e", "l", "l">>, <<"t", "e", "l">>,
                <<"c", "o", "n", "t", "a", "c", "t">>}
LowerStr(s) == [i \in 1..Len(s) |-> Lower(s[i])]
Contains(s, w) ==
    \E i \in 1..(Len(s) - Len(w) + 1) : SubSeq(s, i, i + Len(w) - 1) = w
mobile_pattern(column) == \E w \in MobileWords : Contains(LowerStr(column), w)

\* numbers.append(phone_str), for a value that passes the checks
AppendNumber(value, phone_str, rest) ==
    IF /\ value.kind # "missing"
       /\ Truthy(value) /\ Strip(StrCell(value)) # <<>>
       /\ phone_str # <<>> /\ valid_pattern(phone_str)
    THEN <<phone_str>> \o rest
    ELSE rest

\* the numbers list built from one column
RECURSIVE ColumnNumbers(_)
ColumnNumbers(cells) ==
    IF cells = <<>> THEN <<>>
    ELSE AppendNumber(Head(cells), convert_to_phone(Head(cells)),
                      ColumnNumbers(Tail(cells)))

\* process_dataframe: the result dict after the loop over the columns from
\* column i on
RECURSIVE process_dataframe(_, _, _)
UseColumn(df, result_key, i, numbers) ==
    IF mobile_pattern(df[i].header) /\ numbers # <<>>
    THEN [k \in {result_key} |-> fromkeys(numbers)]
    ELSE process_dataframe(df, result_key, i + 1)
process_dataframe(df, result_key, i) ==
    IF i > Len(df) THEN <<>>
    ELSE UseColumn(df, result_key, i, ColumnNumbers(df[i].cells))

\* the result key: "CSV" for a csv file, else file_ext.upper()
ResultKey(ext) ==
    CASE ext = "csv" -> "CSV" [] ext = "xlsx" -> "XLSX" [] OTHER -> "XLS"

\* the dict returned, or the exception of pd.read_csv / pd.read_excel
excel_to_phone_list(f) ==
    IF f.readable
    THEN [raised |-> FALSE, result |-> process_dataframe(f.df, ResultKey(f.ext), 1)]
    ELSE [raised |-> TRUE, result |-> <<>>]

\* ---- the files explored --------------------------------------------------
Chars == {"1", "2", "+", "-", " ", ".", "a", "E", "e"}

\* the cells that are not text: the ints and the floats of magnitude up to
\* MaxNum, a missing value, an infinity
OtherCells ==
    {IntCell(n) : n \in (0 - MaxNum)..MaxNum}
    \cup {FloatCell(k) : k \in (0 - 2 * MaxNum)..(2 * MaxNum)}
    \cup {Missing, Infinity}

\* cells of which several have the same normal form
AlikeCells == {Text(<<"1", "2">>), Text(<<"+", "1", "2">>), Text(<<" ", "1", "2">>),
               Text(<<"1", ".", "2", "E", "1">>), IntCell(12), FloatCell(42),
               Text(<<"2", "1">>), Text(<<"a">>), Missing}

FewCells == {Text(<<"1", "2">>), Text(<<"a">>), Missing}

PhoneHeader == <<"P", "h", "o", "n", "e">>
Headers == {PhoneHeader,
            <<"M", "o", "b", "i", "l", "e", " ", "N", "u", "m", "b", "e", "r">>,
            <<"H", "O", "T", "E", "L">>,
            <<"N", "a", "m", "e">>}
FileExts == {"csv", "xlsx", "xls"}

Column(h, cells) == [header |-> h, cells |-> cells]
File(ext, df) == [given |-> TRUE, ext |-> ext, readable |-> TRUE, df |-> df]
NoFile == [given |-> FALSE, ext |-> "csv", readable |-> FALSE, df |-> <<>>]

Unreadable(ext) == [given |-> TRUE, ext |-> ext, readable |-> FALSE, df |-> <<>>]

\* the files explored
IsExplored(f) ==
    \* one phone column of one cell: a text of up to MaxLen characters
    \/ \E n \in 0..MaxLen : \E s \in [1..n -> Chars] :
          f = File("csv", <<Column(PhoneHeader, <<Text(s)>>)>>)
    \* or a cell of another kind
    \/ \E c \in OtherCells : f = File("csv", <<Column(PhoneHeader, <<c>>)>>)
    \* one phone column of up to MaxRows cells
    \/ \E e \in FileExts : \E r \in 1..MaxRows : \E cells \in [1..r -> AlikeCells] :
          f = File(e, <<Column(PhoneHeader, cells)>>)
    \* up to MaxCols columns of one cell
    \/ \E e \in FileExts : \E n \in 1..MaxCols :
          \E df \in [1..n -> {Column(h, <<c>>) : h \in Headers, c \in FewCells}] :
             f = File(e, df)
    \* a file pandas cannot read
    \/ \E e \in FileExts : f = Unreadable(e)

\* ---- the page: header media, recipients, the send button -----------------
\* the mime types upload_media accepts (the keys of ext_map)
ext_map == {"image/jpeg", "image/jpg", "image/png", "video/mp4", "video/3gpp"}

\* get_header_input: the uploaded file (its mime type), "none" for no file,
\* for a file over the size limit and for a header type without an uploader
get_header_input(header_type, uploaded, too_large) ==
    IF header_type \in {"IMAGE", "VIDEO"}
    THEN IF uploaded # "none" /\ too_large THEN "none" ELSE uploaded
    ELSE "none"

\* header_input of main: asked for only if the header is not a text header
HeaderInput(f) ==
    IF f.header_type \notin {"NONE", "TEXT"}
    THEN get_header_input(f.header_type, f.uploaded, f.too_large)
    ELSE "none"

\* str.isdigit()
isdigit(s) == s # <<>> /\ AllDigits(s)

\* get_phone_input for the method "Phone Number": None for a typed text that
\* is not all digits, else the text (which may be empty)
\* (as a mutant: the text is returned unchecked)
get_phone_input_unchecked(phone) == [none |-> FALSE, phone |-> phone]
get_phone_input(phone) ==
    IF phone # <<>> /\ ~isdigit(phone) THEN [none |-> TRUE, phone |-> <<>>]
    ELSE [none |-> FALSE, phone |-> phone]

\* country_code of main: the typed text, None after the digits check failed,
\* "" when the file is said to hold the country code
CountryCode(typed, excel_has_country_code) ==
    IF excel_has_country_code THEN [none |-> FALSE, str |-> <<>>]
    ELSE IF typed # <<>> /\ ~isdigit(typed) THEN [none |-> TRUE, str |-> <<>>]
    ELSE [none |-> FALSE, str |-> typed]

\* a value inside an f-string: str(None) is "None"
FormatValue(v) == IF v.none THEN <<"N", "o", "n", "e">> ELSE v.str

\* full_phone = f"{country_code}{phone_number}"
full_phone(country_code, phone_number) == FormatValue(country_code) \o phone_number

\* upload_media: ValueError for a type outside ext_map, the client's error,
\* or the id of the uploaded media
upload_media(file_type, upload_ok) ==
    IF file_type \notin ext_map THEN [raised |-> TRUE, id |-> "none"]
    ELSE IF ~upload_ok THEN [raised |-> TRUE, id |-> "none"]
    ELSE [raised |-> FALSE, id |-> "media_id"]

\* the header params for an uploaded media
HeaderParams(file_type, media_id) ==
    IF file_type \in {"video/mp4", "video/3gp"}
    THEN <<[type |-> "HeaderVideo", id |-> media_id]>>
    ELSE IF file_type \in {"image/png", "image/jpeg"}
    THEN <<[type |-> "HeaderImage", id |-> media_id]>>
    ELSE <<>>

\* prepare_media_component: None (the empty list here), the header params, or
\* the exception of the upload
prepare_media_component(header_input, upload_ok) ==
    IF header_input = "none" THEN [raised |-> FALSE, params |-> <<>>]
    ELSE IF upload_media(header_input, upload_ok).raised
    THEN [raised |-> TRUE, params |-> <<>>]
    ELSE [raised |-> FALSE,
          params |-> HeaderParams(header_input, upload_media(header_input, upload_ok).id)]

\* generate_components: BodyText params if a variable is filled in
generate_components(filled) ==
    IF filled THEN <<[type |-> "BodyText", id |-> "none"]>> ELSE <<>>

\* phone_numbers_dict of main
PhoneNumbersDict(f, upload) ==
    IF f.message_method = "Phone Number"
    THEN IF ~get_phone_input(f.phone).none /\ get_phone_input(f.phone).phone # <<>>
         THEN [k \in {"Single"} |-> <<get_phone_input(f.phone).phone>>]
         ELSE <<>>
    ELSE IF upload.given THEN excel_to_phone_list(upload).result ELSE <<>>

\* sum(len(phones) for phones in phone_numbers_dict.values())
RECURSIVE SumLens(_, _)
SumLens(d, keys) ==
    IF keys = {} THEN 0
    ELSE Len(d[CHOOSE k \in keys : TRUE])
         + SumLens(d, keys \ {CHOOSE k \in keys : TRUE})
TotalTasks(d) == SumLens(d, DOMAIN d)

\* the pages explored
MimeTypes(header_type) ==
    IF header_type = "IMAGE"
    THEN {"image/jpeg", "image/jpg", "image/png", "application/octet-stream"}
    ELSE IF header_type = "VIDEO"
    THEN {"video/mp4", "video/3gpp", "application/octet-stream"}
    ELSE {}

Form(h, u, l, o, m, p, b, c, x) ==
    [header_type |-> h, uploaded |-> u, too_large |-> l, upload_ok |-> o,
     message_method |-> m, phone |-> p, body |-> b,
     country_input |-> c, excel_has_country_code |-> x]

\* the value the "Country Code" input starts with
DefaultCountry == <<"9", "1">>
NoForm ==
    Form("NONE", "none", FALSE, FALSE, "Phone Number", <<>>, FALSE,
         DefaultCountry, FALSE)

\* what is typed into "Country Code"
TypedCountry == {<<>>, DefaultCountry, <<"+", "9", "1">>}

Typed == {<<>>, <<"1", "2">>, <<"1", "a">>, <<"+", "1", "2">>}

Forms ==
    {Form(h, u, l, o, m, p, b, c, x) :
        h \in {"NONE", "TEXT", "IMAGE", "VIDEO", "DOCUMENT"},
        u \in {"none"} \cup ext_map \cup {"application/octet-stream"},
        l \in BOOLEAN, o \in BOOLEAN,
        m \in {"Phone Number", "Excel/CSV File"}, p \in Typed, b \in BOOLEAN,
        c \in TypedCountry, x \in BOOLEAN}

\* a page as the widgets can show it: a media file only in an uploader of its
\* header type, a typed number only with the method "Phone Number", the
\* country-code question only with a file, the country-code input only
\* when the file is said to hold no country code
Shown(f) ==
    /\ f.uploaded = "none" \/ f.uploaded \in MimeTypes(f.header_type)
    /\ f.uploaded = "none" => (~f.too_large /\ ~f.upload_ok)
    /\ f.message_method # "Phone Number" => f.phone = <<>>
    /\ f.excel_has_country_code => f.message_method = "Excel/CSV File"
    /\ f.excel_has_country_code => f.country_input = DefaultCountry

\* the recipients files explored with the page
FormCells == {Text(<<"1", "2">>), Text(<<"2", "1">>), Text(<<"a">>)}
FormFiles ==
    {File("csv", <<Column(h, cells)>>) :
        h \in {PhoneHeader, <<"N", "a", "m", "e">>},
        cells \in [1..1 -> FormCells] \cup [1..2 -> FormCells]}
    \cup {Unreadable("xlsx"), NoFile}

\* ---- _get_client: the callers ----------------------------------------------
\* the threads of the pool
Workers == 1..MaxWorkers

NoClient == [id |-> 0, phone_id |-> <<>>, token |-> <<>>]
IdleWorker == [pc |-> "idle", phone_id |-> <<>>, token |-> <<>>, obj |-> NoClient]

\* the first ten characters of two access tokens of one app
TokenHead == <<"E", "A", "A", "G", "m", "0", "P", "X", "Z", "C">>
\* the tokens passed: two that differ after the tenth character, a short one
Tokens == {TokenHead \o <<"a">>, TokenHead \o <<"b">>, <<"t">>}
PhoneIds == {<<"1">>, <<"2">>}

\* s[:n]
Slice(s, n) == SubSeq(s, 1, Min(n, Len(s)))

\* key = f"{phone_id}:{token[:10]}"
Key(phone_id, token) == phone_id \o <<":">> \o Slice(token, KeyLen)

\* WhatsApp(phone_id=phone_id, token=token, ...): a new object
WhatsApp(phone_id, token) ==
    [id |-> Cardinality(instances) + 1, phone_id |-> phone_id, token |-> token]

\* ---- Init ----------------------------------------------------------------
\* the mock transports explored for a run of n recipients
Mocks(n) ==
    IF n <= DetailTasks THEN {ClientOutcomes}
    ELSE {{"ok", k} : k \in ClientOutcomes \ {"ok"}}

\* nothing has been dispatched
Idle ==
    /\ submitted = 0
    /\ pc = [t \in Tasks |-> "new"]
    /\ attempt = [t \in Tasks |-> 0]
    /\ wake = [t \in Tasks |-> 0]
    /\ hist = [t \in Tasks |-> <<>>]
    /\ gates = [t \in Tasks |-> 0]
    /\ sleeps = [t \in Tasks |-> <<>>]
    /\ result = [t \in Tasks |-> NoResult]
    /\ count = 0
    /\ age = 0
    /\ lockHolder = 0
    /\ clock = 0
    /\ recorded = [t \in Tasks |-> 0]
    /\ total_messages_sent = 0
    /\ total_messages_failed = 0
    /\ failed_numbers = <<>>
    /\ completed = 0
    /\ early = {}
    /\ finished_futures = <<>>
    /\ doneOrder = <<>>
    /\ permWin = EmptyWin
    /\ sendWin = EmptyWin
    /\ atCancel = [t \in Tasks |-> 0]
    /\ clients = <<>>
    /\ worker = [w \in Workers |-> IdleWorker]
    /\ calls = [w \in Workers |-> 0]
    /\ instances = {}
    /\ returned = {}

\* a run about to dispatch its batch
Start0 ==
    /\ total_tasks \in 1..NumTasks
    /\ mainpc = "submit"
    /\ form = NoForm
    /\ components = <<>>
    /\ file = NoFile
    /\ phone_numbers_dict = <<>>
    /\ Idle

\* a process whose client cache is empty
ClientInit ==
    /\ form = NoForm
    /\ file = NoFile
    /\ components = <<>>
    /\ phone_numbers_dict = <<>>
    /\ mainpc = "clients"
    /\ total_tasks = 0
    /\ metered = {}
    /\ texts = OwnTexts
    /\ transport = {"ok"}
    /\ Idle

\* excel_to_phone_list about to be called on a file
ExtractInit ==
    /\ IsExplored(file)
    /\ form = NoForm
    /\ components = <<>>
    /\ phone_numbers_dict = <<>>
    /\ mainpc = "extract"
    /\ total_tasks = 0
    /\ metered = {}
    /\ texts = OwnTexts
    /\ transport = {"ok"}
    /\ Idle

\* the page is filled in, the send button not yet pressed
FormInit ==
    /\ form \in {f \in Forms : Shown(f)}
    /\ file \in IF form.message_method = "Phone Number" THEN {NoFile} ELSE FormFiles
    /\ components = <<>>
    /\ phone_numbers_dict = <<>>
    /\ mainpc = "form"
    /\ total_tasks = 0
    /\ metered = {}
    /\ texts = OwnTexts
    /\ transport = {"ok", "transport"}
    /\ Idle

Init ==
    /\ Start0
    /\ metered = {}
    /\ texts = OwnTexts
    /\ transport \in Mocks(total_tasks)

\* the runs explored for termination: what matters there is that a call
\* returns or raises, so the larger runs draw from "ok" and one raised error,
\* a retryable one or a permanent one (the largest: a connection error, which
\* the loop treats like any other raised error)
LiveMocks(n) ==
    IF n <= DetailTasks THEN {ClientOutcomes}
    ELSE IF n < NumTasks THEN {{"ok", "transport"}, {"ok", "permanent"}}
    ELSE {{"ok", "transport"}}

LiveInit ==
    /\ Start0
    /\ metered = {}
    /\ texts = OwnTexts
    /\ transport \in LiveMocks(total_tasks)

\* runs in which every send fails, with a connection error or a permanent
\* rejection, whose exceptions carry any of these messages
Messages == {"request failed", "bad request"}

ReportInit ==
    /\ Start0
    /\ metered = {}
    /\ transport = {"transport", "permanent"}
    /\ \E a, b \in Messages :
         texts = [k \in ErrorOutcomes |->
                    IF k = "transport" THEN a ELSE IF k = "permanent" THEN b ELSE k]

\* the same run with the rolling-window meters switched on
TimedInit ==
    /\ Start0
    /\ metered = {"windows"}
    /\ texts = OwnTexts
    /\ transport = {"ok", "transport"}

\* the same run with the time since the start recorded
ClockInit ==
    /\ Start0
    /\ metered = {"clock"}
    /\ texts = OwnTexts
    /\ transport = {"ok", "transport"}

\* the same run with the order of completion recorded
OrderInit ==
    /\ Start0
    /\ metered = {"order"}
    /\ texts = OwnTexts
    /\ transport = {"ok", "transport"}

\* ---- the pool ------------------------------------------------------------
\* the work items that occupy a worker thread
\* (as a mutant: only those inside a send call)
RunningSending == {t \in Tasks : pc[t] = "send"}
Running == {t \in Tasks : pc[t] \notin {"new", "queued", "done"}}

\* executor.submit(rate_limited_send, phone_number), in list order
Submit ==
    /\ mainpc = "submit"
    /\ submitted < total_tasks
    /\ submitted' = submitted + 1
    /\ pc' = [pc EXCEPT ![submitted + 1] = "queued"]
    /\ mainpc' = IF submitted + 1 = total_tasks THEN "submitted" ELSE "submit"
    /\ UNCHANGED <<setup, attempt, wake, hist, gates, sleeps, result,
                   limiterVars, aggVars, waiterVars, permWin, sendWin>>

\* a free worker takes the oldest queued work item
Start(t) ==
    /\ pc[t] = "queued"
    /\ \A u \in 1..(t - 1) : pc[u] # "queued"
    /\ Cardinality(Running) < MaxWorkers
    /\ pc' = [pc EXCEPT ![t] = "lock"]
    /\ UNCHANGED <<setup, submitted, mainpc, attempt, wake, hist, gates,
                   sleeps, result, limiterVars, aggVars, waiterVars, permWin, sendWin>>

\* ---- rate_limited_send: the gate -----------------------------------------
\* the lock is released when the with-block is left
\* (as a mutant: it stays held)
ReleaseKeepsLock(t) == t
Release(t) == 0

\* time.sleep(1.0 - elapsed) is made inside the with-block: the sleeper holds
\* the lock (as a mutant: the sleep is made with the lock released)
SleepUnlocked(t) == 0
SleepLocked(t) == t

\* time.sleep(1.0 - elapsed): the rest of the window
\* (as a mutant: no sleep)
NoSleep(elapsed) == 0
SleepTime(elapsed) == Window - elapsed

\* the clock is read as long as any permit can still be due
ClockMax == Window * (NumTasks \div RateN)

\* with rate_lock: count += 1; if count >= 80: elapsed ...; the worker either
\* leaves the block at once or starts time.sleep(1.0 - elapsed) inside it
Acquire(t) ==
    /\ pc[t] = "lock"
    /\ lockHolder = 0
    /\ gates' = [gates EXCEPT ![t] = @ + 1]
    /\ IF count + 1 >= RateN
       THEN IF age < Window
            THEN /\ count' = count + 1
                 /\ lockHolder' = SleepLocked(t)
                 /\ wake' = [wake EXCEPT ![t] = SleepTime(age)]
                 /\ pc' = [pc EXCEPT ![t] = "gatesleep"]
                 /\ UNCHANGED <<age, permWin>>
            ELSE /\ count' = 0
                 /\ age' = 0
                 /\ lockHolder' = Release(t)
                 /\ pc' = [pc EXCEPT ![t] = "send"]
                 /\ permWin' = Stamp(permWin)
                 /\ UNCHANGED wake
       ELSE /\ count' = count + 1
            /\ lockHolder' = Release(t)
            /\ pc' = [pc EXCEPT ![t] = "send"]
            /\ permWin' = Stamp(permWin)
            /\ UNCHANGED <<age, wake>>
    /\ UNCHANGED <<setup, submitted, mainpc, attempt, hist, sleeps, result,
                   aggVars, waiterVars, sendWin, clock>>

\* the sleep inside the lock is over: last_batch_time = time.time(); count = 0
GateWake(t) ==
    /\ pc[t] = "gatesleep"
    /\ wake[t] = 0
    /\ count' = 0
    /\ age' = 0
    /\ lockHolder' = Release(t)
    /\ pc' = [pc EXCEPT ![t] = "send"]
    /\ permWin' = Stamp(permWin)
    /\ UNCHANGED <<setup, submitted, mainpc, attempt, wake, hist, gates,
                   sleeps, result, aggVars, waiterVars, sendWin, clock>>

\* ---- send_message_task: one attempt --------------------------------------
\* a future gets its result: the waiter installed by as_completed (if it
\* is already waiting) appends the future to its finished_futures
\* (as a mutant: the waiter puts the newest future first)
add_result_first(q, t) == <<t>> \o q
add_result(q, t) == Append(q, t)

SetResult(t) ==
    /\ finished_futures' = IF mainpc = "collect"
                           THEN add_result(finished_futures, t) ELSE finished_futures
    /\ doneOrder' = IF "order" \in metered THEN Append(doneOrder, t) ELSE doneOrder
    /\ UNCHANGED early

Send(t) ==
    /\ pc[t] = "send"
    /\ \E k \in transport :
         LET resp == send_whatsapp_message(k)
             h == HandleResponse(t, attempt[t], resp)
         IN /\ hist' = [hist EXCEPT ![t] = Append(@, k)]
            /\ sendWin' = Stamp(sendWin)
            /\ IF h.do = "retry"
               THEN /\ pc' = [pc EXCEPT ![t] = "backoff"]
                    /\ wake' = [wake EXCEPT ![t] = h.wait]
                    /\ sleeps' = [sleeps EXCEPT ![t] = Append(@, h.wait)]
                    /\ UNCHANGED <<result, waiterVars>>
               ELSE /\ pc' = [pc EXCEPT ![t] = "done"]
                    /\ result' = [result EXCEPT ![t] = h.res]
                    /\ SetResult(t)
                    /\ UNCHANGED <<wake, sleeps>>
    /\ UNCHANGED <<setup, submitted, mainpc, attempt, gates, limiterVars,
                   aggVars, permWin>>

\* time.sleep(wait_time) is over: continue with the next attempt, or leave
\* the loop when the range is exhausted ("Max retries exceeded")
BackoffWake(t) ==
    /\ pc[t] = "backoff"
    /\ wake[t] = 0
    /\ IF attempt[t] + 1 <= MaxRetries
       THEN /\ attempt' = [attempt EXCEPT ![t] = @ + 1]
            /\ pc' = [pc EXCEPT ![t] = "send"]
            /\ UNCHANGED <<result, waiterVars>>
       ELSE /\ pc' = [pc EXCEPT ![t] = "done"]
            /\ result' = [result EXCEPT ![t] =
                            [success |-> FALSE, phone |-> t, error |-> "maxretries"]]
            /\ SetResult(t)
            /\ UNCHANGED attempt
    /\ UNCHANGED <<setup, submitted, mainpc, wake, hist, gates, sleeps,
                   limiterVars, aggVars, permWin, sendWin>>

\* ---- the aggregation loop ------------------------------------------------
\* as_completed(future_to_phone) starts: the futures that are finished by
\* now are set aside, a waiter is installed on the others
AsCompleted ==
    /\ mainpc = "submitted"
    /\ mainpc' = "collect"
    /\ early' = {t \in Tasks : pc[t] = "done"}
    /\ doneOrder' = IF "order" \in metered THEN Append(doneOrder, 0) ELSE doneOrder
    /\ UNCHANGED <<setup, submitted, poolVars, limiterVars, aggVars,
                   finished_futures, permWin, sendWin>>

\* as_completed yields each finished future once: first those set aside at
\* its start (a set: in any order), then the waiter's list, oldest first
\* (as a mutant: a finished future may be yielded again)
YieldableAgain(t) == pc[t] = "done"
Yieldable(t) ==
    \/ t \in early
    \/ /\ early = {}
       /\ finished_futures # <<>>
       /\ Head(finished_futures) = t

\* the futures still in the waiter's list after t was yielded
Remaining(q, t) == SelectSeq(q, LAMBDA u : u # t)

\* completed = total_messages_sent + total_messages_failed
\* (as a mutant: the failed count is left out)
ProgressSentOnly(sent, failed) == sent
Progress(sent, failed) == sent + failed

\* the counters after one result
\* (as a mutant: a failure is not counted)
CountFailedDropped(res, sent, failed) ==
    IF res.success THEN <<sent + 1, failed>> ELSE <<sent, failed>>
CountResult(res, sent, failed) ==
    IF res.success THEN <<sent + 1, failed>> ELSE <<sent, failed + 1>>

Collect(t) ==
    /\ mainpc = "collect"
    /\ Yieldable(t)
    /\ LET c == CountResult(result[t], total_messages_sent, total_messages_failed)
       IN /\ total_messages_sent' = c[1]
          /\ total_messages_failed' = c[2]
          /\ completed' = Progress(c[1], c[2])
    /\ failed_numbers' =
         IF result[t].success THEN failed_numbers
         ELSE Append(failed_numbers,
                     [phone |-> result[t].phone, error |-> result[t].error])
    /\ recorded' = [recorded EXCEPT ![t] = @ + 1]
    /\ early' = early \ {t}
    /\ finished_futures' = Remaining(finished_futures, t)
    /\ UNCHANGED <<setup, submitted, mainpc, poolVars, limiterVars,
                   doneOrder, permWin, sendWin>>

\* every future has been yielded: the with-block ends, final results are shown
Finish ==
    /\ mainpc = "collect"
    /\ \A t \in 1..total_tasks : ~Yieldable(t) /\ pc[t] = "done"
    /\ mainpc' = "final"
    /\ UNCHANGED <<setup, submitted, poolVars, limiterVars, aggVars, waiterVars,
                   permWin, sendWin>>

\* ---- time ----------------------------------------------------------------
Tick ==
    /\ mainpc \in {"submit", "submitted", "collect", "cancelled"}
    /\ age' = Min(Window, age + 1)
    /\ clock' = IF "clock" \in metered THEN Min(ClockMax, clock + 1) ELSE clock
    /\ wake' = [t \in Tasks |-> Max(0, wake[t] - 1)]
    /\ permWin' = Shift(permWin)
    /\ sendWin' = Shift(sendWin)
    /\ UNCHANGED <<setup, submitted, mainpc, pc, attempt, hist, gates,
                   sleeps, result, count, lockHolder, aggVars, waiterVars>>

Next ==
    \/ Submit
    \/ AsCompleted
    \/ \E t \in Tasks : Start(t)
    \/ \E t \in Tasks : Acquire(t)
    \/ \E t \in Tasks : GateWake(t)
    \/ \E t \in Tasks : Send(t)
    \/ \E t \in Tasks : BackoffWake(t)
    \/ \E t \in Tasks : Collect(t)
    \/ Finish
    \/ Tick

\* the caller stops the run while results are being collected: the loop body
\* is left by an exception, the with-block's exit waits for the workers
\* (shutdown(wait=True)), which run every queued work item to its end; the
\* counters stay as they were and no final results are shown
Cancel ==
    /\ mainpc = "collect"
    /\ mainpc' = "cancelled"
    /\ atCancel' = [t \in Tasks |-> Len(hist[t])]
    /\ UNCHANGED <<transport, texts, metered, total_tasks, submitted, poolVars,
                   limiterVars, aggVars, waiterVars, permWin, sendWin, form, components, file,
                   phone_numbers_dict, clientVars>>

CancelNext == Next \/ Cancel

\* ---- the send button -----------------------------------------------------
\* if send_button: the media check, the upload, the params, the recipients;
\* the run starts if there is at least one recipient
SendButton ==
    /\ mainpc = "form"
    /\ IF form.header_type \notin {"NONE", "TEXT"} /\ HeaderInput(form) = "none"
       THEN /\ mainpc' = "rejected"
            /\ UNCHANGED <<components, phone_numbers_dict, total_tasks>>
       ELSE IF prepare_media_component(HeaderInput(form), form.upload_ok).raised
       THEN /\ mainpc' = "raised"
            /\ UNCHANGED <<components, phone_numbers_dict, total_tasks>>
       ELSE /\ components' =
                 prepare_media_component(HeaderInput(form), form.upload_ok).params
                 \o generate_components(form.body)
            /\ IF form.message_method # "Phone Number" /\ file.given /\ ~file.readable
               THEN /\ mainpc' = "raised"
                    /\ UNCHANGED <<phone_numbers_dict, total_tasks>>
               ELSE /\ phone_numbers_dict' = PhoneNumbersDict(form, file)
                    /\ total_tasks' = TotalTasks(PhoneNumbersDict(form, file))
                    /\ mainpc' = IF TotalTasks(PhoneNumbersDict(form, file)) = 0
                                 THEN "notstarted" ELSE "submit"
    /\ UNCHANGED <<transport, texts, metered, atCancel, form, file, submitted,
                   clientVars, poolVars, limiterVars, aggVars, waiterVars, permWin, sendWin>>

FormNext == SendButton \/ Next

\* ---- excel_to_phone_list --------------------------------------------------
Extract ==
    /\ mainpc = "extract"
    /\ mainpc' = IF file.readable THEN "extracted" ELSE "raised"
    /\ phone_numbers_dict' = excel_to_phone_list(file).result
    /\ UNCHANGED <<transport, texts, metered, total_tasks, atCancel, form, components,
                   clientVars, file, submitted, poolVars, limiterVars, aggVars, waiterVars, permWin, sendWin>>

ExtractNext == Extract

\* ---- _get_client -----------------------------------------------------------
\* what a call of _get_client leaves alone
callerVars == <<transport, texts, metered, total_tasks, atCancel, form, components,
                file, phone_numbers_dict, submitted, mainpc, poolVars, limiterVars,
                aggVars, waiterVars, permWin, sendWin>>

\* a worker enters _get_client(phone_id, token)
GetClient(w, phone_id, token) ==
    /\ mainpc = "clients"
    /\ worker[w].pc = "idle"
    /\ calls[w] < MaxCalls
    /\ worker' = [worker EXCEPT ![w] = [pc |-> "check", phone_id |-> phone_id,
                                        token |-> token, obj |-> NoClient]]
    /\ UNCHANGED <<clients, calls, instances, returned, callerVars>>

\* if key not in _clients
CheckKey(w) ==
    /\ worker[w].pc = "check"
    /\ worker' = [worker EXCEPT ![w].pc =
                    IF Key(worker[w].phone_id, worker[w].token) \in DOMAIN clients
                    THEN "return" ELSE "create"]
    /\ UNCHANGED <<clients, calls, instances, returned, callerVars>>

\* the right-hand side: WhatsApp(...) is constructed
Construct(w) ==
    /\ worker[w].pc = "create"
    /\ worker' = [worker EXCEPT ![w].pc = "store",
                                ![w].obj = WhatsApp(worker[w].phone_id, worker[w].token)]
    /\ instances' = instances \cup {WhatsApp(worker[w].phone_id, worker[w].token)}
    /\ UNCHANGED <<clients, calls, returned, callerVars>>

\* _clients[key] = the new object
StoreClient(w) ==
    /\ worker[w].pc = "store"
    /\ clients' = [k \in DOMAIN clients \cup {Key(worker[w].phone_id, worker[w].token)} |->
                     IF k = Key(worker[w].phone_id, worker[w].token)
                     THEN worker[w].obj ELSE clients[k]]
    /\ worker' = [worker EXCEPT ![w].pc = "return"]
    /\ UNCHANGED <<calls, instances, returned, callerVars>>

\* return _clients[key]
ReturnClient(w) ==
    /\ worker[w].pc = "return"
    /\ returned' = returned \cup
                     {[phone_id |-> worker[w].phone_id, token |-> worker[w].token,
                       client |-> clients[Key(worker[w].phone_id, worker[w].token)]]}
    /\ calls' = [calls EXCEPT ![w] = @ + 1]
    /\ worker' = [worker EXCEPT ![w] = IdleWorker]
    /\ UNCHANGED <<clients, instances, callerVars>>

ClientNext ==
    \/ \E w \in Workers : \E p \in PhoneIds : \E k \in Tokens : GetClient(w, p, k)
    \/ \E w \in Workers : CheckKey(w)
    \/ \E w \in Workers : Construct(w)
    \/ \E w \in Workers : StoreClient(w)
    \/ \E w \in Workers : ReturnClient(w)

Spec == Init /\ [][Next]_vars

\* threads are scheduled and time passes
FairSpec == LiveInit /\ [][Next]_vars /\ WF_vars(Next)

TimedSpec == TimedInit /\ [][Next]_vars

ClockSpec == ClockInit /\ [][Next]_vars

OrderSpec == OrderInit /\ [][Next]_vars

ReportSpec == ReportInit /\ [][Next]_vars

CancelSpec == Init /\ [][CancelNext]_vars

ExtractSpec == ExtractInit /\ [][ExtractNext]_vars

FormSpec == FormInit /\ [][FormNext]_vars

ClientSpec == ClientInit /\ [][ClientNext]_vars

\* ---- what the claims speak of --------------------------------------------
Submitted == 1..total_tasks
Done(t) == pc[t] = "done"
Failed(t) == Done(t) /\ ~result[t].success
Attempts(t) == Len(hist[t])

\* the outcomes the loop of send_message_task retries while attempts remain
CodeRetries(k) ==
    LET resp == send_whatsapp_message(k)
    IN resp.raised \/ (resp.hasError /\ RetryableCode(resp.code))

\* C1: the rate limiter grants no more than RateN permits (returns from the
\* gate) within any rolling window of one second.
C1_PermitsPerRollingWindow == InWindow(permWin) <= RateN

\* C2: no sliding one-second window contains more than RateN invocations of
\* the send operation, whatever the transport answers.
C2_SendsPerRollingWindow == InWindow(sendWin) <= RateN

\* C3: every send attempt of a task is preceded by its own acquisition of the
\* gate: a task never has more send attempts than gate acquisitions, and a
\* finished task has as many of the one as of the other.
C3_GatePerAttempt ==
    \A t \in Tasks :
        /\ Attempts(t) <= gates[t]
        /\ Done(t) => gates[t] = Attempts(t)

\* C4: a send rejected with a permanent API error is never retried: it is the
\* task's last attempt, the task is a Failure, and when it was the first
\* attempt the task made exactly one attempt and no backoff sleep.
C4_PermanentNotRetried ==
    \A t \in Tasks : \A i \in 1..Attempts(t) :
        hist[t][i] = "permanent" =>
            /\ Failed(t)
            /\ Attempts(t) = i
            /\ Len(sleeps[t]) = i - 1

\* C5: the number of send attempts made for a task is never above 3, and a
\* task that has its outcome made between 1 and 3 attempts.
C5_AttemptsBetween1And3 ==
    \A t \in Tasks :
        /\ Attempts(t) <= 3
        /\ Done(t) => Attempts(t) \in 1..3

C5_Witness ==
    \E t \in Tasks : Failed(t) /\ Attempts(t) = 3

C7_RecordedExactlyOnce ==
    /\ \A t \in Tasks : recorded[t] <= 1
    /\ \A t \in Tasks : recorded[t] = 1 => (Done(t) /\ result[t].phone = t)
    /\ \A t \in Tasks \ Submitted : recorded[t] = 0
    /\ mainpc = "final" => \A t \in Submitted : recorded[t] = 1

C7_Witness ==
    /\ mainpc = "final"
    /\ total_tasks = NumTasks
    /\ \E t, u \in Submitted : result[t].success /\ ~result[u].success

\* C8: when the run finishes, succeeded + failed equals total.
C8_FinalAccounting ==
    mainpc = "final" => total_messages_sent + total_messages_failed = total_tasks

C8_Witness ==
    /\ mainpc = "final"
    /\ total_messages_sent >= 1
    /\ total_messages_failed >= 1
    /\ \E t \in Submitted : Failed(t) /\ Attempts(t) = 3

\* C9: at every point of the run succeeded + failed == completed, completed
\* is the number of outcomes recorded so far, and completed <= total.
C9_ProgressInvariant ==
    /\ total_messages_sent + total_messages_failed = completed
    /\ completed = Cardinality({t \in Tasks : recorded[t] > 0})
    /\ completed <= total_tasks

C9_Witness ==
    /\ mainpc = "collect"
    /\ total_messages_sent >= 1
    /\ total_messages_failed >= 1
    /\ completed < total_tasks

\* C10: whatever the transport returns or raises, the run terminates with
\* every task finished (so none is left at the gate) and its outcome recorded.
C10_RunTerminates ==
    <>(mainpc = "final" /\ \A t \in Submitted : Done(t) /\ recorded[t] = 1)

C10_Witness ==
    /\ mainpc = "final"
    /\ total_tasks = NumTasks
    /\ \E t \in Submitted : Failed(t) /\ result[t].error = "transport"
    /\ \E t \in Submitted : result[t].success

\* C11: when attempts 1..k of a task (k = 1 or 2) fail with a retryable error
\* and attempt k+1 succeeds, the outcome is Success and exactly k backoff
\* sleeps were made for it, of 0.5 s and then 1 s (1 and 2 units), each one
\* after the failed attempt and before the next attempt.
C11_RetryThenSuccess ==
    \A t \in Tasks :
        /\ (/\ Attempts(t) \in 2..3
            /\ hist[t][Attempts(t)] = "ok"
            /\ \A i \in 1..(Attempts(t) - 1) : hist[t][i] \in RetryableKinds)
           => /\ Done(t)
              /\ result[t].success
              /\ sleeps[t] = SubSeq(<<1, 2>>, 1, Attempts(t) - 1)
        /\ pc[t] = "backoff" => Len(sleeps[t]) = Attempts(t)
        /\ pc[t] = "send" => (Len(sleeps[t]) = Attempts(t) /\ wake[t] = 0)

C11_Witness ==
    \E t \in Tasks :
        /\ Done(t)
        /\ result[t].success
        /\ hist[t] = <<"ratelimit", "ratelimit", "ok">>
        /\ sleeps[t] = <<1, 2>>

\* C12: when all 3 attempts of a task fail retryably, the task ends as a
\* Failure whose error detail is the error of the third attempt, not that of
\* an earlier attempt and not a generic message.
C12_LastErrorReported ==
    \A t \in Tasks :
        (Attempts(t) = 3 /\ \A i \in 1..3 : hist[t][i] \in RetryableKinds)
        => /\ Failed(t)
           /\ result[t].phone = t
           /\ result[t].error = texts[hist[t][3]]

C12_Witness ==
    \E t \in Tasks :
        /\ Failed(t)
        /\ hist[t] = <<"transport", "ratelimit", "server">>
        /\ result[t].error = texts["server"]
        /\ result[t].error # texts["transport"]

\* the class of a failed task: that of the error of its last attempt
FailureClass(t) ==
    IF hist[t][Attempts(t)] \in RetryableKinds THEN "recoverable" ELSE "permanent"

\* C20: the report lets the caller tell recoverable failures from permanent
\* ones: two failure records of different error classes never carry the same
\* content (they differ in more than the recipient).
C20_ClassesDistinguishable ==
    \A i, j \in 1..Len(failed_numbers) :
        FailureClass(failed_numbers[i].phone) # FailureClass(failed_numbers[j].phone)
        => failed_numbers[i].error # failed_numbers[j].error

\* C13: after the caller has cancelled a run no new send attempt is started,
\* and once the workers are quiet every task without an outcome is reported as
\* a failure of kind "cancelled", so that sent + failed = total.
C13_CancelledAccounted ==
    mainpc = "cancelled" =>
        /\ \A t \in Tasks : Attempts(t) = atCancel[t]
        /\ (\A t \in Submitted : pc[t] = "done") =>
              /\ total_messages_sent + total_messages_failed = total_tasks
              /\ \A t \in Submitted :
                    recorded[t] = 0 =>
                        \E i \in 1..Len(failed_numbers) :
                            failed_numbers[i] = [phone |-> t, error |-> "cancelled"]

\* ---- vocabulary of the extraction claims ----------------------------------
Extracted == mainpc = "extracted"
\* every list of the result
Groups == {phone_numbers_dict[k] : k \in DOMAIN phone_numbers_dict}
\* the only cell of a file of one column and one row
OnlyCell == file.df[1].cells[1]
OneCell == Len(file.df) = 1 /\ Len(file.df[1].cells) = 1

\* C15: every identifier emitted by excel_to_phone_list is a non-empty string
\* of decimal digits, whatever the cells hold (text, numbers, missing values,
\* exponential notation).
C15_OnlyDigits ==
    Extracted =>
        \A g \in Groups : \A i \in 1..Len(g) : g[i] # <<>> /\ AllDigits(g[i])

\* a text cell in exponential notation was emitted
C15_Witness ==
    /\ Extracted /\ OneCell
    /\ OnlyCell = Text(<<".", "1", "e", "2">>)
    /\ Groups = {<< <<"1", "0">> >>}
\* the column the result was taken from, and the first row of it whose
\* normal form is p
Normal(c, r) == convert_to_phone(file.df[c].cells[r])
FirstRow(c, p) ==
    CHOOSE r \in 1..Len(file.df[c].cells) :
        /\ Normal(c, r) = p
        /\ \A q \in 1..(r - 1) : Normal(c, q) # p

\* C16: the list emitted for a group holds no identifier twice, duplicates
\* being detected after normalization, and the identifiers stand in the order
\* of their first occurrence in the source column.
C16_NoDuplicatesFirstSeen ==
    Extracted =>
        \A g \in Groups :
            /\ \A i, j \in 1..Len(g) : i # j => g[i] # g[j]
            /\ \E c \in 1..Len(file.df) :
                  /\ \A i \in 1..Len(g) :
                        \E r \in 1..Len(file.df[c].cells) : Normal(c, r) = g[i]
                  /\ \A i, j \in 1..Len(g) :
                        i < j => FirstRow(c, g[i]) < FirstRow(c, g[j])

\* "+12", "21", "12": the third cell repeats the first after normalization
C16_Witness ==
    /\ Extracted
    /\ Len(file.df) = 1
    /\ file.df[1].cells = <<Text(<<"+", "1", "2">>), Text(<<"2", "1">>),
                            Text(<<"1", "2">>)>>
    /\ Groups = {<< <<"1", "2">>, <<"2", "1">> >>}

\* the cell after str.strip() and the removal of one leading "+"
OnePlusOff(s) == IF s # <<>> /\ Head(s) = "+" THEN Tail(s) ELSE s

\* C17: a text cell that is not in exponential notation is emitted exactly
\* when, a leading "+" stripped, what remains is a non-empty string of decimal
\* digits, and it is emitted as that string; any other non-digit content (a
\* second "+", letters, spaces inside, a point) disqualifies the cell.
C17_OnePlusStripped ==
    (/\ Extracted /\ OneCell
     /\ mobile_pattern(file.df[1].header)
     /\ OnlyCell.kind = "text" /\ ~HasE(OnlyCell.s))
    => LET rest == OnePlusOff(Strip(OnlyCell.s))
       IN  IF rest # <<>> /\ AllDigits(rest)
           THEN Groups = {<<rest>>}
           ELSE Groups = {}

\* the columns whose header matches the patterns
Matching == {c \in 1..Len(file.df) : mobile_pattern(file.df[c].header)}

\* C18: recipients are taken from the first column whose header matches; when
\* that column yields no valid recipient the group is omitted, and no later
\* column is used.
C18_FirstMatchingColumnOnly ==
    Extracted =>
        IF Matching = {} THEN Groups = {}
        ELSE LET first == CHOOSE c \in Matching : \A d \in Matching : c <= d
             IN  \A g \in Groups : \A i \in 1..Len(g) :
                    \E r \in 1..Len(file.df[first].cells) : Normal(first, r) = g[i]

\* ---- vocabulary of the claims about the page -------------------------------
\* no cell of a matching column of the file normalizes to a valid number
NoValidCell ==
    \A c \in Matching : \A r \in 1..Len(file.df[c].cells) : ~valid_pattern(Normal(c, r))

\* the batch has no valid recipient
NoRecipients ==
    IF form.message_method = "Phone Number"
    THEN ~isdigit(form.phone)
    ELSE ~file.given \/ (file.readable /\ NoValidCell)

\* the template needs header media and none was supplied
MediaMissing == form.header_type \notin {"NONE", "TEXT"} /\ form.uploaded = "none"

\* C14: when the batch has no valid recipient (a single typed number that is
\* not all digits included) or the template needs header media and none was
\* supplied, the run is not started: no send attempt is ever issued.
C14_RunNotStarted ==
    (NoRecipients \/ MediaMissing) =>
        /\ \A t \in Tasks : Attempts(t) = 0 /\ pc[t] = "new"
        /\ mainpc \in {"form", "rejected", "raised", "notstarted"}

\* the button was pressed with a typed number that is not all digits
C14_Witness ==
    /\ mainpc = "notstarted"
    /\ form.message_method = "Phone Number"
    /\ form.phone = <<"1", "a">>

\* the upload of the header media succeeds when the button is pressed
UploadSucceeds ==
    /\ HeaderInput(form) # "none"
    /\ form.uploaded \in ext_map
    /\ form.upload_ok

\* C19: when the upload of the header media succeeds, for every mime type the
\* upload accepts, the params of every send call of the run hold a header
\* component that carries the returned media id.
C19_HeaderCarriesMediaId ==
    UploadSucceeds =>
        \A t \in Tasks :
            Attempts(t) >= 1 =>
                \E i \in 1..Len(components) :
                    /\ components[i].type \in {"HeaderImage", "HeaderVideo"}
                    /\ components[i].id = "media_id"

\* the tasks being executed: at the gate, in a send call or in a backoff sleep
Executing == {t \in Tasks : pc[t] \in {"lock", "gatesleep", "send", "backoff"}}

\* C21: at no time are more tasks being executed than the pool has workers;
\* a task beyond them waits in the queue until a worker is free.
C21_PoolBound == Cardinality(Executing) <= MaxWorkers

\* the pool is full and a submitted task waits for a worker
C21_Witness ==
    /\ Cardinality(Executing) = MaxWorkers
    /\ \E t \in Tasks : pc[t] = "queued"

\* the workers inside the limiter's critical section across a step
InGate == {t \in Tasks : pc[t] = "gatesleep"}

\* C22: the limiter's increment / compare / sleep / reset is one critical
\* section: at most one worker is inside it, the sleeper holds the lock, while
\* it sleeps no other worker gets through the gate, and whenever no worker
\* holds the lock the counter is in 0..N-1.
C22_CriticalSection ==
    /\ [](/\ Cardinality(InGate) <= 1
          /\ \A t \in InGate : lockHolder = t
          /\ lockHolder = 0 => count \in 0..(RateN - 1))
    /\ [][\A t \in InGate : \A u \in Tasks \ {t} :
             pc[u] = "lock" => pc'[u] = "lock"]_vars

\* a worker sleeps in the gate with the counter at N while another waits for
\* the lock
C22_Witness ==
    \E t, u \in Tasks :
        /\ pc[t] = "gatesleep" /\ lockHolder = t /\ count = RateN
        /\ pc[u] = "lock"

\* the permits granted so far: the tasks that have left the gate
Permits == Cardinality({t \in Tasks : pc[t] \in {"send", "backoff", "done"}})

FailedPhones == [i \in 1..Len(failed_numbers) |-> failed_numbers[i].phone]

\* the tasks whose failed outcome the loop has recorded
RecordedFailed == {t \in Tasks : recorded[t] > 0 /\ ~result[t].success}

\* a comes before b in the sequence q
Before(q, a, b) ==
    \E i, j \in 1..Len(q) : i < j /\ q[i] = a /\ q[j] = b

\* the outcome of t was complete when as_completed started
CompleteAtStart(t) == Before(doneOrder, t, 0)

\* the failure list holds one record per failed task recorded so far, each
\* naming that task's recipient and error
OneRecordPerFailure ==
    /\ Len(failed_numbers) = total_messages_failed
    /\ Cardinality(RecordedFailed) = Len(failed_numbers)
    /\ {FailedPhones[i] : i \in 1..Len(failed_numbers)} = RecordedFailed
    /\ \A i \in 1..Len(failed_numbers) :
         /\ failed_numbers[i].phone = result[FailedPhones[i]].phone
         /\ failed_numbers[i].error = result[FailedPhones[i]].error

\* C24 (as stated): at every point of a run the failure list holds exactly
\* one record per failed task recorded so far, in the order in which the
\* outcomes completed.
C24_CompletionOrder ==
    /\ OneRecordPerFailure
    /\ FailedPhones = SelectSeq(doneOrder, LAMBDA t : t \in RecordedFailed)

\* C24 (amended): at every point of a run the failure list holds exactly one
\* record per failed task recorded so far, in the order in which as_completed
\* yielded them: the outcomes that were complete when the loop started come
\* first, in no particular order, the others follow in completion order.
C24_YieldOrder ==
    /\ OneRecordPerFailure
    /\ \A i, j \in 1..Len(failed_numbers) :
         i < j => /\ CompleteAtStart(FailedPhones[j]) => CompleteAtStart(FailedPhones[i])
                  /\ (~CompleteAtStart(FailedPhones[i]) /\ ~CompleteAtStart(FailedPhones[j]))
                     => Before(doneOrder, FailedPhones[i], FailedPhones[j])

\* two failures that completed while the loop was waiting, the later
\* recipient of the input first
C24_Witness ==
    /\ mainpc = "final"
    /\ Len(failed_numbers) >= 2
    /\ FailedPhones[1] > FailedPhones[2]
    /\ ~CompleteAtStart(FailedPhones[1])
    /\ ~CompleteAtStart(FailedPhones[2])

\* ---- after the outcome ------------------------------------------------------
\* the send calls of t after one that succeeded
SendsAfterSuccess(t) ==
    {i \in 1..Len(hist[t]) : \E j \in 1..(i - 1) : hist[t][j] = "ok"}

\* C25: once a task has produced its outcome no further send attempt and no
\* further backoff sleep is made for it (its outcome stays as it is), and no
\* send is issued for a recipient after a send for it has succeeded.
C25_NothingAfterOutcome ==
    /\ [](\A t \in Tasks :
            /\ SendsAfterSuccess(t) = {}
            /\ (hist[t] # <<>> /\ hist[t][Len(hist[t])] = "ok") => Done(t)
            /\ Done(t) => wake[t] = 0)
    /\ [][\A t \in Tasks :
            Done(t) => /\ Done(t)'
                       /\ hist'[t] = hist[t]
                       /\ sleeps'[t] = sleeps[t]
                       /\ attempt'[t] = attempt[t]
                       /\ result'[t] = result[t]]_vars

\* a success after one retry and a failure after three attempts, both
\* recorded, while time went on for another task that was still sending
C25_Witness ==
    /\ mainpc = "final"
    /\ \E t, u, v \in Submitted :
         /\ hist[t] = <<"transport", "ok">>
         /\ result[t].success
         /\ Len(hist[u]) = MaxRetries + 1
         /\ ~result[u].success
         /\ sleeps[v] = <<WaitTime(0), WaitTime(1)>>
         /\ v # t

\* ---- the destination of a send call -------------------------------------------
\* the recipients of the run, one per submitted work item
RECURSIVE Recipients(_, _)
Recipients(d, keys) ==
    IF keys = {} THEN <<>>
    ELSE d[CHOOSE k \in keys : TRUE]
         \o Recipients(d, keys \ {CHOOSE k \in keys : TRUE})

\* the `to` of the send calls made for work item t
Destination(t) ==
    full_phone(CountryCode(form.country_input, form.excel_has_country_code),
               Recipients(phone_numbers_dict, DOMAIN phone_numbers_dict)[t])

\* C26: whatever is typed as country code (digits, nothing, or other text),
\* every destination string passed to the send operation is a non-empty
\* string of decimal digits.
C26_DestinationDigits ==
    \A t \in Submitted : hist[t] # <<>> => isdigit(Destination(t))

\* ---- the client cache ---------------------------------------------------------
\* the instances constructed for the calls with these arguments' key
InstancesOf(phone_id, token) ==
    {c \in instances : Key(c.phone_id, c.token) = Key(phone_id, token)}

\* C27: under concurrent calls of _get_client with the same phone id and
\* token at most one client instance is ever created for that key, and every
\* caller receives that same instance.
C27_OneClientPerKey ==
    /\ \A p \in PhoneIds : \A k \in Tokens : Cardinality(InstancesOf(p, k)) <= 1
    /\ \A r, q \in returned :
         (r.phone_id = q.phone_id /\ r.token = q.token) => r.client = q.client

\* C28: a call never returns a client that holds another access token than
\* the one it was called with.
C28_ClientHoldsToken ==
    \A r \in returned : r.client.token = r.token

====
